---- MODULE Spec2Model ----
(***************************************************************************)
(* Model of the ArmorIQ social-media MCP server (src/main.py and           *)
(* src/mcpserver.py): the API-key check, the JSON-RPC dispatch of          *)
(* handle_mcp_request over every tool of either module (the Graph API      *)
(* tools, fetch_google_images, create_quote_image with its download retry  *)
(* loop), and the text-overlay compositor _apply_text_overlay with its     *)
(* font fallback, greedy word wrap and vertical layout.                    *)
(*                                                                         *)
(* Strings are sequences of one-character glyphs.  An optional value       *)
(* (Python None or a value) is the empty sequence or a one-element         *)
(* sequence holding the value.                                             *)
(***************************************************************************)
EXTENDS Integers, Sequences, FiniteSets, TLC

VARIABLES
    ovIn,       \* arguments of the last direct call of _apply_text_overlay
    ovOut,      \* what that call computed (fonts, lines, layout, draws)
    server,     \* which module is running: "main" or "mcpserver"
    apiKeyEnv,  \* MCP_API_KEY of the running module
    clock,      \* time.time(), in whole seconds
    tempBg,     \* content of <save_folder>/temp_bg.jpg (optional image)
    finalFiles, \* content of <final_folder>/quote_<t>.jpg, by t
    downloads,  \* content of the files fetch_google_images wrote in <save_folder>
    finalDir,   \* whether <final_folder> exists
    inv,        \* the requests: position, inputs and response of each
    toolIn,     \* inputs of a single create_quote_image request run on its own
    toolOut     \* its response and the calls it made (downloads, overlays)

vars == <<ovIn, ovOut, server, apiKeyEnv, clock, tempBg, finalFiles, downloads, finalDir, inv,
          toolIn, toolOut>>

srvVars == <<server, apiKeyEnv, clock, tempBg, finalFiles, downloads, finalDir, inv>>

ovVars == <<ovIn, ovOut>>

toolVars == <<toolIn, toolOut>>

-----------------------------------------------------------------------------
(* Bounds of the model *)

MaxTextLen == 5

MaxImgWidth == 6

MaxClock == 1

MaxUrls == 2

-----------------------------------------------------------------------------
(* Optional values *)

NoneVal == <<>>

Some(x) == <<x>>

IsNone(o) == o = <<>>

Val(o) == o[1]

-----------------------------------------------------------------------------
(* Strings *)

Glyphs == {"a", "W", " "}

IsSpace(g) == g = " "

RECURSIVE SeqsUpTo(_, _)
SeqsUpTo(S, n) ==
    IF n = 0 THEN {<<>>}
    ELSE LET shorter == SeqsUpTo(S, n - 1)
         IN  shorter \cup {Append(s, g) : s \in shorter, g \in S}

RECURSIVE SplitAcc(_, _, _)
SplitAcc(rest, cur, acc) ==
    IF rest = <<>>
    THEN IF cur = <<>> THEN acc ELSE Append(acc, cur)
    ELSE IF IsSpace(Head(rest))
         THEN SplitAcc(Tail(rest), <<>>, IF cur = <<>> THEN acc ELSE Append(acc, cur))
         ELSE SplitAcc(Tail(rest), Append(cur, Head(rest)), acc)

\* str.split(): the maximal runs of non-whitespace glyphs, in order
Split(text) == SplitAcc(text, <<>>, <<>>)

RECURSIVE Join(_)
\* " ".join(ws)
Join(ws) ==
    IF ws = <<>> THEN <<>>
    ELSE IF Len(ws) = 1 THEN ws[1]
    ELSE ws[1] \o <<" ">> \o Join(Tail(ws))

RECURSIVE Concat(_)
Concat(ss) == IF ss = <<>> THEN <<>> ELSE Head(ss) \o Concat(Tail(ss))

RECURSIVE SumSeq(_)
SumSeq(ns) == IF ns = <<>> THEN 0 ELSE Head(ns) + SumSeq(Tail(ns))

SetMax(S) == CHOOSE m \in S : \A n \in S : n <= m

-----------------------------------------------------------------------------
(* Fonts and text measurement (PIL ImageFont / ImageDraw.textbbox).        *)
(* A font is a face (0 = the built-in default, 1..3 = possible_fonts[i])   *)
(* and a size; a glyph has an advance and a height in font units, and a    *)
(* TrueType face scales them by its size.                                  *)

NumFonts == 3

DefaultFace == 0

DefaultUnit == 1

Unit(font) == IF font.face = DefaultFace THEN DefaultUnit ELSE font.size

Advance(g) == CASE g = "W" -> 2 [] OTHER -> 1

Rise(g) == CASE g = "W" -> 2 [] g = " " -> 0 [] OTHER -> 1

\* draw.textbbox((0, 0), s, font=font)[2]
TextW(s, font) == Unit(font) * SumSeq([i \in 1..Len(s) |-> Advance(s[i])])

\* draw.textbbox((0, 0), s, font=font)[3]
TextH(s, font) ==
    IF s = <<>> THEN 0 ELSE Unit(font) * SetMax({Rise(s[i]) : i \in 1..Len(s)})

\* ImageFont.truetype(path, font_size) returns a font (TRUE) or raises (FALSE)
Loads(fontFiles, path, font_size) == fontFiles[path] /\ font_size > 0

\* ImageFont.load_default()
load_default == [face |-> DefaultFace, size |-> 0]

-----------------------------------------------------------------------------
(* _apply_text_overlay, step 2: font fallback *)

\* int(height / 15)
FontSize(height) == height \div 15

RECURSIVE FontLoopNoBreak(_, _, _, _)
\* the loop without its break: every candidate is tried and the last that loads wins
FontLoopNoBreak(fontFiles, font_size, path, tried) ==
    IF path > NumFonts THEN [font |-> NoneVal, tried |-> tried]
    ELSE LET rest == FontLoopNoBreak(fontFiles, font_size, path + 1, Append(tried, path))
         IN  IF Loads(fontFiles, path, font_size) /\ IsNone(rest.font)
             THEN [font |-> Some([face |-> path, size |-> font_size]), tried |-> rest.tried]
             ELSE rest

RECURSIVE FontLoop(_, _, _, _)
\* for path in possible_fonts: try: font = truetype(path, font_size); break
\*                             except: continue
\* `tried` lists the candidates ImageFont.truetype was called on
FontLoop(fontFiles, font_size, path, tried) ==
    IF path > NumFonts THEN [font |-> NoneVal, tried |-> tried]
    ELSE IF Loads(fontFiles, path, font_size)
         THEN [font |-> Some([face |-> path, size |-> font_size]),
               tried |-> Append(tried, path)]
         ELSE FontLoop(fontFiles, font_size, path + 1, Append(tried, path))

\* font, bold_font after the loop and the `if not font` fallback
ResolveFonts(fontFiles, font_size) ==
    LET r == FontLoop(fontFiles, font_size, 1, <<>>)
    IN  IF IsNone(r.font)
        THEN [font |-> load_default, bold_font |-> load_default, tried |-> r.tried]
        ELSE [font |-> Val(r.font), bold_font |-> Val(r.font), tried |-> r.tried]

-----------------------------------------------------------------------------
(* _apply_text_overlay, step 3: greedy word wrap *)

\* int(width * 0.8)
MaxWidth(width) == (4 * width) \div 5

TestLineWordOnly(current_line, word) == word

\* test_line = " ".join(current_line + [word])
TestLine(current_line, word) == Join(Append(current_line, word))

FitsStrict(w, max_width) == w < max_width

\* if w <= max_width
Fits(w, max_width) == w <= max_width

NewLineEmpty(word) == <<>>

\* current_line = [word]
NewLine(word) == <<word>>

RECURSIVE WrapLoop(_, _, _, _, _)
\* for word in words: ...; after the loop lines.append(" ".join(current_line))
WrapLoop(words, lines, current_line, font, max_width) ==
    IF words = <<>> THEN Append(lines, Join(current_line))
    ELSE LET word == Head(words)
             w    == TextW(TestLine(current_line, word), font)
         IN  IF Fits(w, max_width)
             THEN WrapLoop(Tail(words), lines, Append(current_line, word), font, max_width)
             ELSE WrapLoop(Tail(words), Append(lines, Join(current_line)), NewLine(word),
                           font, max_width)

Wrap(text, font, max_width) == WrapLoop(Split(text), <<>>, <<>>, font, max_width)

-----------------------------------------------------------------------------
(* _apply_text_overlay, steps 4 and 5: block height and drawing *)

\* int(font_size * 0.4)
LineSpacing(font_size) == (2 * font_size) \div 5

\* sum([textbbox(line)[3] for line in lines]) + (len(lines) - 1) * line_spacing
BlockHeight(lines, font, line_spacing) ==
    SumSeq([i \in 1..Len(lines) |-> TextH(lines[i], font)])
        + (Len(lines) - 1) * line_spacing

\* `if author:` : neither None nor the empty string
Truthy(author) == ~IsNone(author) /\ Val(author) # <<>>

\* f"- {author}"
AuthorText(author) == <<"-", " ">> \o Val(author)

AuthorBlockOneGap(author_h, line_spacing) == author_h + line_spacing

\* total_height += author_h + line_spacing * 2
AuthorBlock(author_h, line_spacing) == author_h + line_spacing * 2

RECURSIVE DrawLinesNoSpacing(_, _, _, _, _, _)
\* the draw loop advancing by the line height alone
DrawLinesNoSpacing(lines, width, font, line_spacing, curr_y, draws) ==
    IF lines = <<>> THEN [draws |-> draws, curr_y |-> curr_y]
    ELSE LET line == Head(lines)
             w    == TextW(line, font)
         IN  DrawLinesNoSpacing(Tail(lines), width, font, line_spacing,
                                curr_y + TextH(line, font),
                                Append(draws, [x |-> (width - w) \div 2, y |-> curr_y,
                                               text |-> line, font |-> font]))

StartYClamped(height, total_height) ==
    IF total_height > height THEN 0 ELSE (height - total_height) \div 2

\* curr_y = (height - total_height) // 2   (floor division, also when negative)
StartY(height, total_height) == (height - total_height) \div 2

RECURSIVE DrawLines(_, _, _, _, _, _)
\* for line in lines: draw.text(((width - w) // 2, curr_y), line); curr_y += h + spacing
DrawLines(lines, width, font, line_spacing, curr_y, draws) ==
    IF lines = <<>> THEN [draws |-> draws, curr_y |-> curr_y]
    ELSE LET line == Head(lines)
             w    == TextW(line, font)
         IN  DrawLines(Tail(lines), width, font, line_spacing,
                       curr_y + TextH(line, font) + line_spacing,
                       Append(draws, [x |-> (width - w) \div 2, y |-> curr_y,
                                      text |-> line, font |-> font]))

\* the call raised before anything was drawn or saved
Raised(fonts, font_size) ==
    [raised |-> TRUE, saved |-> FALSE, bg |-> 0, width |-> 0, height |-> 0,
     font |-> fonts.font, bold_font |-> fonts.bold_font, tried |-> fonts.tried,
     font_size |-> font_size, max_width |-> 0, words |-> <<>>, lines |-> <<>>,
     line_spacing |-> 0, total_height |-> 0, author_text |-> <<>>, author_h |-> 0,
     start_y |-> 0, draws |-> <<>>, author_draw |-> NoneVal]

\* _apply_text_overlay(image_path, text, output_path, author): img is the image
\* stored at image_path, fontFiles says which font files this machine can load
apply_text_overlay(img, text, author, fontFiles) ==
    LET width        == img.width
        height       == img.height
        font_size    == FontSize(height)
        fonts        == ResolveFonts(fontFiles, font_size)
        font         == fonts.font
        bold_font    == fonts.bold_font
    IN  IF IsNone(text) THEN Raised(fonts, font_size)   \* None.split()
        ELSE
        LET max_width    == MaxWidth(width)
            lines        == Wrap(Val(text), font, max_width)
            line_spacing == LineSpacing(font_size)
            quote_h      == BlockHeight(lines, font, line_spacing)
            author_text  == IF Truthy(author) THEN AuthorText(author) ELSE <<>>
            author_h     == IF Truthy(author) THEN TextH(author_text, bold_font) ELSE 0
            total_height == IF Truthy(author)
                            THEN quote_h + AuthorBlock(author_h, line_spacing)
                            ELSE quote_h
            start_y      == StartY(height, total_height)
            drawn        == DrawLines(lines, width, font, line_spacing, start_y, <<>>)
            author_draw  ==
                IF Truthy(author)
                THEN Some([x |-> (width - TextW(author_text, bold_font)) \div 2,
                           y |-> drawn.curr_y + line_spacing,
                           text |-> author_text, font |-> bold_font])
                ELSE NoneVal
        IN  [raised |-> FALSE, saved |-> TRUE, bg |-> img.id, width |-> width,
             height |-> height, font |-> font, bold_font |-> bold_font,
             tried |-> fonts.tried, font_size |-> font_size, max_width |-> max_width,
             words |-> Split(Val(text)), lines |-> lines, line_spacing |-> line_spacing,
             total_height |-> total_height, author_text |-> author_text,
             author_h |-> author_h, start_y |-> start_y, draws |-> drawn.draws,
             author_draw |-> author_draw]

-----------------------------------------------------------------------------
(* Direct calls of the compositor *)

Heights == {1, 29, 45}

Texts == SeqsUpTo(Glyphs, MaxTextLen)

\* no author, an empty author, a short and a tall author name
AuthorArgs == {NoneVal, Some(<<>>), Some(<<"a">>), Some(<<"W">>)}

FontEnvs == [1..NumFonts -> BOOLEAN]

\* the arguments of a call and the font files of the machine it runs on
OverlayInputs ==
    [img : [id : {"img"}, width : 1..MaxImgWidth, height : Heights],
     text : {NoneVal} \cup {Some(t) : t \in Texts},
     author : AuthorArgs,
     fontFiles : FontEnvs]

\* the call _apply_text_overlay(image_path, text, output_path, author) on ovIn
OverlayCall ==
    /\ ~IsNone(ovIn)
    /\ IsNone(ovOut)
    /\ LET a == Val(ovIn)
       IN  ovOut' = Some(apply_text_overlay(a.img, a.text, a.author, a.fontFiles))
    /\ UNCHANGED <<ovIn, srvVars, toolVars>>

-----------------------------------------------------------------------------
(* Security: verify_api_key of either module *)

HackathonKey == "hackathon-secret-123"

Servers == {"main", "mcpserver"}

\* MCP_API_KEY: os.environ.get("MCP_API_KEY") in main.py, a literal in mcpserver.py
KeyConfigs(srv) ==
    IF srv = "main" THEN {NoneVal, Some(""), Some("k1")} ELSE {Some(HackathonKey)}

\* the X-API-Key header a client sends: none, a wrong key, or the configured key
Headers(key) ==
    {NoneVal, Some("wrong-key")} \cup (IF IsNone(key) \/ Val(key) = "" THEN {} ELSE {key})

verify_always(srv, key, api_key) == TRUE

\* TRUE: the dependency returns and the request is dispatched; FALSE: HTTPException 403
verify_api_key(srv, key, api_key) ==
    IF srv = "main" /\ (IsNone(key) \/ Val(key) = "")   \* if not MCP_API_KEY
    THEN TRUE                                            \* return "debug-mode"
    ELSE api_key = key                                   \* if api_key == MCP_API_KEY

-----------------------------------------------------------------------------
(* Image download and the create_quote_image tool (main.py) *)

Urls == {"u1", "u2"}

\* the image a URL serves when its download and verification succeed
ImgOf(u) == IF u = "u1" THEN [id |-> u, width |-> 6, height |-> 29]
                        ELSE [id |-> u, width |-> 5, height |-> 45]

\* the font files of the machine the server runs on: the DejaVu path only
ServerFonts == [p \in 1..NumFonts |-> p = 1]

\* _download_and_verify_image(url, folder, filename): ok holds the URLs whose GET
\* and verify succeed, file is the content of folder/filename, and dir_ok says
\* whether the directory of folder/filename exists, so that open(..., 'wb') succeeds
download_and_verify_image(url, ok, file, dir_ok) ==
    IF url \in ok /\ dir_ok
    THEN [path |-> TRUE, file |-> Some(ImgOf(url))]    \* written, file_path returned
    ELSE [path |-> FALSE, file |-> file]               \* except: return None

RECURSIVE RetryLoopNoBreak(_, _, _, _)
\* the retry loop without its break: every link is downloaded, the last success wins
RetryLoopNoBreak(image_urls, ok, file, attempted) ==
    IF image_urls = <<>>
    THEN [bg_path |-> FALSE, valid_url |-> NoneVal, file |-> file, attempted |-> attempted]
    ELSE LET url  == Head(image_urls)
             d    == download_and_verify_image(url, ok, file, TRUE)
             rest == RetryLoopNoBreak(Tail(image_urls), ok, d.file, Append(attempted, url))
         IN  IF rest.bg_path \/ ~d.path THEN rest
             ELSE [bg_path |-> TRUE, valid_url |-> Some(url), file |-> d.file,
                   attempted |-> rest.attempted]

RECURSIVE RetryLoop(_, _, _, _)
\* for url in image_urls: bg_path = download(url); if bg_path: valid_url = url; break
\* (the target is save_folder/temp_bg.jpg, and the download creates save_folder)
RetryLoop(image_urls, ok, file, attempted) ==
    IF image_urls = <<>>
    THEN [bg_path |-> FALSE, valid_url |-> NoneVal, file |-> file, attempted |-> attempted]
    ELSE LET url == Head(image_urls)
             d   == download_and_verify_image(url, ok, file, TRUE)
         IN  IF d.path
             THEN [bg_path |-> TRUE, valid_url |-> Some(url), file |-> d.file,
                   attempted |-> Append(attempted, url)]
             ELSE RetryLoop(Tail(image_urls), ok, d.file, Append(attempted, url))

\* the pixels img.convert("RGB").save(output_path) writes
Rendered(o) == [bg |-> o.bg, draws |-> o.draws, author_draw |-> o.author_draw]

\* tool_result: its "status" (or what it is, when the code passes the API's JSON
\* through), "final_image_path", "original_image_url" and "files"
ToolResult(status, final_path, url) ==
    [status |-> status, final_path |-> final_path, url |-> url, files |-> <<>>]

\* what one run of the tool did: the links fetched, the downloads attempted in
\* order, and the backgrounds the overlay was applied to
NoTrace == [inv |-> 0, urls |-> <<>>, ok |-> {}, attempted |-> <<>>, overlays |-> <<>>]

\* final_filename = f"quote_{int(time.time())}.jpg"
FinalName(now) == now

\* the create_quote_image branch of tools/call, for request i at time now.
\* fetch: the list _fetch_image_urls returns, or none when it raises.
create_quote_image(i, quote, author, fetch, ok, now, file, finals) ==
    LET same(status) == [tool_result |-> ToolResult(status, NoneVal, NoneVal),
                         file |-> file, finals |-> finals,
                         trace |-> [NoTrace EXCEPT !.inv = i]]
    IN  IF IsNone(fetch) THEN same("ERROR")            \* except Exception as e
        ELSE
        LET image_urls == Val(fetch)
        IN  IF image_urls = <<>>
            THEN [same("error") EXCEPT !.trace.urls = image_urls, !.trace.ok = ok]
            ELSE
            LET r  == RetryLoop(image_urls, ok, file, <<>>)
                tr == [inv |-> i, urls |-> image_urls, ok |-> ok,
                       attempted |-> r.attempted, overlays |-> <<>>]
            IN  IF ~r.bg_path
                THEN [tool_result |-> ToolResult("error", NoneVal, NoneVal),
                      file |-> r.file, finals |-> finals, trace |-> tr]
                ELSE
                LET final_path == FinalName(now)
                    \* Image.open(bg_path): whatever temp_bg.jpg holds now
                    o == apply_text_overlay(Val(r.file), quote, author, ServerFonts)
                    tr2 == [tr EXCEPT !.overlays = <<Val(r.file).id>>]
                IN  IF o.raised
                    THEN [tool_result |-> ToolResult("ERROR", NoneVal, NoneVal),
                          file |-> r.file, finals |-> finals, trace |-> tr2]
                    ELSE [tool_result |-> ToolResult("success", Some(final_path), r.valid_url),
                          file |-> r.file,
                          finals |-> [finals EXCEPT ![final_path] = Some(Rendered(o))],
                          trace |-> tr2]

-----------------------------------------------------------------------------
(* The fetch_google_images tool (main.py) *)

\* a query whose file names resolve into final_folder: "../final_posts/quote"
TraversalQuery == <<"..", "/", "final_posts", "/", "quote">>

\* the "query" argument: absent, two words, and a path into final_folder
Queries == {NoneVal, Some(<<"s", " ", "k">>), Some(TraversalQuery)}

\* query.replace(' ', '_')
Replace(query) == [k \in 1..Len(query) |-> IF query[k] = " " THEN "_" ELSE query[k]]

\* filename = f"{query.replace(' ', '_')}_{i}.jpg"
Filename(query, i) == [stem |-> Replace(query), idx |-> i]

\* os.path.join(save_folder, filename) names final_folder/quote_<idx>.jpg
InFinal(filename) == filename.stem = Replace(TraversalQuery)

\* the files of save_folder the queries can name
DlNames ==
    {Filename(Val(q), i) : q \in Queries \ {NoneVal}, i \in 0..(MaxUrls - 1)}
        \ {Filename(TraversalQuery, i) : i \in 0..(MaxUrls - 1)}

\* the file names of final_folder: quote_<t>.jpg for the seconds of the clock and
\* for the indices a download can carry
FinalNames == 0..(IF MaxClock > MaxUrls - 1 THEN MaxClock ELSE MaxUrls - 1)

\* the file k of a folder holds v
Put(folder, k, v) == [n \in DOMAIN folder \cup {k} |-> IF n = k THEN v ELSE folder[n]]

Content(folder, k) == IF k \in DOMAIN folder THEN folder[k] ELSE NoneVal

RECURSIVE FetchLoop(_, _, _, _, _, _, _, _)
\* for i, url in enumerate(image_urls): path = download(url, save_folder, filename);
\*                                      if path: downloaded_files.append(...)
FetchLoop(image_urls, i, query, ok, dl, finals, fdir, files) ==
    IF image_urls = <<>> THEN [dl |-> dl, finals |-> finals, files |-> files]
    ELSE LET url      == Head(image_urls)
             filename == Filename(query, i)
             d == IF InFinal(filename)
                  THEN download_and_verify_image(url, ok, Content(finals, i), fdir)
                  ELSE download_and_verify_image(url, ok, Content(dl, filename), TRUE)
         IN  FetchLoop(Tail(image_urls), i + 1, query, ok,
                       IF d.path /\ ~InFinal(filename) THEN Put(dl, filename, d.file) ELSE dl,
                       IF d.path /\ InFinal(filename) THEN Put(finals, i, d.file) ELSE finals,
                       fdir,
                       IF d.path
                       THEN Append(files, [filename |-> filename, source_url |-> url])
                       ELSE files)

\* the fetch_google_images branch of tools/call.
\* fetch: the list _fetch_image_urls returns, or none when it raises.
fetch_google_images(query, fetch, ok, dl, finals, fdir) ==
    LET same(status) == [tool_result |-> ToolResult(status, NoneVal, NoneVal),
                         dl |-> dl, finals |-> finals]
    IN  IF IsNone(fetch) THEN same("API_ERROR")              \* except Exception as e
        ELSE IF Val(fetch) = <<>> THEN same("no_images_found")
        ELSE IF IsNone(query) THEN same("API_ERROR")         \* None.replace(' ', '_')
        ELSE LET r == FetchLoop(Val(fetch), 0, Val(query), ok, dl, finals, fdir, <<>>)
             IN  [tool_result |-> [ToolResult("success", NoneVal, NoneVal)
                                     EXCEPT !.files = r.files],
                  dl |-> r.dl, finals |-> r.finals]

-----------------------------------------------------------------------------
(* The Graph API tools *)

\* what the Graph API does during one request: the HTTP call raises, it answers
\* an error status with an error object, it answers no data, or it answers data
GraphAnswers == {"unreachable", "http_error", "empty", "ok"}

GraphTools(srv) ==
    IF srv = "main"
    THEN {"get_recent_dms", "reply_to_dm", "publish_photo_post", "get_recent_comments",
          "reply_to_comment", "get_account_insights"}
    ELSE {"publish_photo_post", "get_recent_comments", "reply_to_comment",
          "get_account_insights"}

\* the "status" of tool_result after the branch of a Graph API tool, or the name of
\* the API answer the branch passes through (pub_res, comments, reply_res, insights).
\* required: the arguments the branch reads with args[...] are present.
graph_tool(tool, required, api) ==
    CASE tool = "get_recent_dms" ->            \* raise_for_status, then "success"
           IF api \in {"unreachable", "http_error"} THEN "API_ERROR" ELSE "success"
      [] tool = "reply_to_dm" ->
           IF api \in {"unreachable", "http_error"} THEN "API_ERROR" ELSE "success"
      [] tool = "publish_photo_post" ->        \* args["image_url"], raise_for_status
           IF ~required \/ api \in {"unreachable", "http_error"} THEN "API_ERROR"
           ELSE "pub_res"
      [] tool = "get_recent_comments" ->       \* no raise_for_status: "data" is looked up
           IF api = "unreachable" THEN "API_ERROR"
           ELSE IF api \in {"http_error", "empty"} THEN "no_posts_found"
           ELSE "comments"
      [] tool = "reply_to_comment" ->          \* args['comment_id']
           IF ~required \/ api = "unreachable" THEN "API_ERROR" ELSE "reply_res"
      [] tool = "get_account_insights" ->
           IF api = "unreachable" THEN "API_ERROR" ELSE "insights"

-----------------------------------------------------------------------------
(* The MCP endpoint: POST /mcp, handle_mcp_request *)

Quotes == {NoneVal, Some(<<>>), Some(<<" ">>), Some(<<"a">>), Some(<<"W", " ", "a">>)}

\* args.get("num_images", 5)
DefaultNumImages == 5

\* _fetch_image_urls(search_query, 3)
QuoteNumImages == 3

\* a request body; query and num_images are the arguments of fetch_google_images,
\* and required says whether the arguments a Graph API branch reads with
\* args[...] are present
Req(json_ok, method, has_params, tool, quote, author) ==
    [json_ok |-> json_ok, method |-> method, has_params |-> has_params, tool |-> tool,
     quote |-> quote, author |-> author, query |-> NoneVal,
     num_images |-> DefaultNumImages, required |-> TRUE]

GraphReq(tool, required) ==
    [Req(TRUE, "tools/call", TRUE, tool, NoneVal, NoneVal) EXCEPT !.required = required]

FetchReq(query, num_images) ==
    [Req(TRUE, "tools/call", TRUE, "fetch_google_images", NoneVal, NoneVal)
       EXCEPT !.query = query, !.num_images = num_images]

\* the request bodies: an unparsable body, the methods, tools/call with and without
\* "params", the Graph API tools, an unknown tool, fetch_google_images and
\* create_quote_image
Requests ==
    {Req(FALSE, "", FALSE, "", NoneVal, NoneVal)}
    \cup {Req(TRUE, m, FALSE, "", NoneVal, NoneVal) :
            m \in {"initialize", "tools/list", "tools/call", "ping"}}
    \cup {GraphReq(t, TRUE) : t \in GraphTools("main") \cup {"no_such_tool"}}
    \cup {GraphReq(t, FALSE) : t \in {"publish_photo_post", "reply_to_comment"}}
    \cup {FetchReq(NoneVal, 1)} \cup {FetchReq(q, 2) : q \in Queries \ {NoneVal}}
    \cup {Req(TRUE, "tools/call", TRUE, "create_quote_image", q, NoneVal) :
            q \in {Some(<<>>), Some(<<"a">>), Some(<<"W", " ", "a">>)}}

NoReq == Req(FALSE, "", FALSE, "", NoneVal, NoneVal)

NoToolResult == ToolResult("", NoneVal, NoneVal)

\* an HTTP response: its status code and the one SSE message sse_pack builds;
\* kind is "result" or "error" for a JSON-RPC envelope, "null" for json.dumps(None)
Resp(http, kind, id, tool_result) ==
    [http |-> http, kind |-> kind, id |-> id, tool_result |-> tool_result]

NoResp == Resp(0, "none", NoneVal, NoToolResult)

Forbidden == Resp(403, "none", NoneVal, NoToolResult)

\* the tools each module dispatches in tools/call
Tools(srv) ==
    GraphTools(srv)
        \cup (IF srv = "main" THEN {"fetch_google_images", "create_quote_image"} ELSE {})

\* handle_mcp_request for request i with body req, at time now, over the files:
\* temp_bg.jpg (file), final_folder (finals, and fdir: it exists) and the other
\* files of save_folder (dl).  fetch, ok and api are what the search API, the image
\* hosts and the Graph API answer during this call.
handle_mcp_request(srv, i, req, fetch, ok, api, now, file, finals, dl, fdir) ==
    LET keep(resp) == [resp |-> resp, file |-> file, finals |-> finals, dl |-> dl,
                       fdir |-> fdir, trace |-> NoneVal]
        msg_id     == Some(i)
    IN  IF ~req.json_ok
        THEN keep(Resp(200, "error", NoneVal, NoToolResult))   \* msg_id not in locals()
        ELSE IF req.method \in {"initialize", "tools/list"}
        THEN keep(Resp(200, "result", msg_id, NoToolResult))
        ELSE IF req.method # "tools/call"
        THEN keep(Resp(200, "null", NoneVal, NoToolResult))    \* response_data = None
        ELSE IF ~req.has_params
        THEN keep(Resp(200, "error", msg_id, NoToolResult))    \* KeyError: 'params'
        ELSE IF req.tool \notin Tools(srv)
        THEN keep(Resp(200, "result", msg_id, ToolResult("error", NoneVal, NoneVal)))
        ELSE IF req.tool \in GraphTools(srv)
        THEN keep(Resp(200, "result", msg_id,
                       ToolResult(graph_tool(req.tool, req.required, api),
                                  NoneVal, NoneVal)))
        ELSE IF req.tool = "fetch_google_images"
        THEN LET f == fetch_google_images(req.query, fetch, ok, dl, finals, fdir)
             IN  [resp |-> Resp(200, "result", msg_id, f.tool_result),
                  file |-> file, finals |-> f.finals, dl |-> f.dl, fdir |-> fdir,
                  trace |-> NoneVal]
        ELSE LET c == create_quote_image(i, req.quote, req.author, fetch, ok, now,
                                         file, finals)
             \* os.makedirs(final_folder) runs before the try
             IN  [resp |-> Resp(200, "result", msg_id, c.tool_result),
                  file |-> c.file, finals |-> c.finals, dl |-> dl, fdir |-> TRUE,
                  trace |-> Some(c.trace)]

\* two clients, each with one request in flight
Invs == {1, 2}

\* overlap: the other requests that were in flight when this one's handler ran
Idle == [pc |-> "idle", header |-> NoneVal, req |-> NoReq, resp |-> NoResp, overlap |-> {}]

\* the answers _fetch_image_urls(query, num) can give: it raises (none) when the
\* search keys are not set or the search request fails, else it returns the links
\* of the items found, of which the search API sends at most num (here at most
\* MaxUrls)
SearchResults(num) ==
    {NoneVal} \cup {Some(l) : l \in SeqsUpTo(Urls, IF num < MaxUrls THEN num ELSE MaxUrls)}

\* the answers to the search of create_quote_image
FetchResults == SearchResults(QuoteNumImages)

\* the image hosts a call contacts: those of the links the search returned
Hosts(fetch) == IF IsNone(fetch) THEN {} ELSE {Val(fetch)[k] : k \in 1..Len(Val(fetch))}

IsQuoteCall(srv, req) ==
    /\ req.json_ok /\ req.method = "tools/call" /\ req.has_params
    /\ req.tool = "create_quote_image" /\ req.tool \in Tools(srv)

IsFetchCall(srv, req) ==
    /\ req.json_ok /\ req.method = "tools/call" /\ req.has_params
    /\ req.tool = "fetch_google_images" /\ req.tool \in Tools(srv)

IsGraphCall(srv, req) ==
    /\ req.json_ok /\ req.method = "tools/call" /\ req.has_params
    /\ req.tool \in GraphTools(srv)

ServerInit ==
    /\ server \in Servers
    /\ apiKeyEnv \in KeyConfigs(server)
    /\ clock = 0
    /\ tempBg = NoneVal
    /\ finalFiles = [t \in FinalNames |-> NoneVal]
    /\ downloads = [n \in DlNames |-> NoneVal]
    /\ finalDir = FALSE
    /\ inv = [i \in Invs |-> Idle]

\* a client POSTs request i: the verify_api_key dependency runs, and the handler
\* is entered (up to its await request.json()) only if it returns
Post(i) ==
    /\ inv[i].pc = "idle"
    /\ \E header \in Headers(apiKeyEnv), req \in Requests :
         inv' = [inv EXCEPT ![i] =
                   IF verify_api_key(server, apiKeyEnv, header)
                   THEN [pc |-> "received", header |-> header, req |-> req,
                         resp |-> NoResp, overlap |-> {}]
                   ELSE [pc |-> "rejected", header |-> header, req |-> NoReq,
                         resp |-> Forbidden, overlap |-> {}]]
    /\ UNCHANGED <<ovVars, toolVars, server, apiKeyEnv, clock, tempBg, finalFiles,
                   downloads, finalDir>>

\* the body of handle_mcp_request for request i: it has no await after
\* request.json(), so it runs to its StreamingResponse in one step of the event loop
Handle(i) ==
    /\ inv[i].pc = "received"
    /\ LET searches == IsQuoteCall(server, inv[i].req) \/ IsFetchCall(server, inv[i].req)
           num == IF IsQuoteCall(server, inv[i].req) THEN QuoteNumImages
                  ELSE inv[i].req.num_images
       IN  \E fetch \in (IF searches THEN SearchResults(num) ELSE {NoneVal}) :
           \E ok \in SUBSET Hosts(fetch),
              api \in (IF IsGraphCall(server, inv[i].req) THEN GraphAnswers ELSE {"ok"}) :
             LET h == handle_mcp_request(server, i, inv[i].req, fetch, ok, api, clock,
                                         tempBg, finalFiles, downloads, finalDir)
             IN  /\ inv' = [inv EXCEPT ![i].pc = "done", ![i].resp = h.resp,
                                       ![i].overlap =
                                           {j \in Invs \ {i} : inv[j].pc = "received"}]
                 /\ tempBg' = h.file
                 /\ finalFiles' = h.finals
                 /\ downloads' = h.dl
                 /\ finalDir' = h.fdir
    /\ UNCHANGED <<ovVars, toolVars, server, apiKeyEnv, clock>>

\* a second of wall-clock time passes
Tick ==
    /\ clock < MaxClock
    /\ clock' = clock + 1
    /\ UNCHANGED <<ovVars, toolVars, server, apiKeyEnv, tempBg, finalFiles, downloads,
                   finalDir, inv>>

Init ==
    /\ ServerInit
    /\ ovIn = NoneVal
    /\ ovOut = NoneVal
    /\ toolIn = NoneVal
    /\ toolOut = NoneVal

Next == (\E i \in Invs : Post(i)) \/ (\E i \in Invs : Handle(i)) \/ Tick

Spec == Init /\ [][Next]_vars

\* the compositor alone, called directly on every input within the bounds
InitOverlay ==
    /\ ovIn \in {Some(a) : a \in OverlayInputs}
    /\ ovOut = NoneVal
    /\ toolIn = NoneVal
    /\ toolOut = NoneVal
    /\ server = "main" /\ apiKeyEnv = NoneVal /\ clock = 0
    /\ tempBg = NoneVal
    /\ finalFiles = [t \in FinalNames |-> NoneVal]
    /\ downloads = [n \in DlNames |-> NoneVal]
    /\ finalDir = FALSE
    /\ inv = [i \in Invs |-> Idle]

NextOverlay == OverlayCall

SpecOverlay == InitOverlay /\ [][NextOverlay]_vars

-----------------------------------------------------------------------------
(* One create_quote_image request handled on its own *)

\* the quote and author of the request, what the search and the image hosts answer
ToolInputs ==
    [quote : Quotes, author : {NoneVal, Some(<<"a">>)},
     fetch : FetchResults, ok : SUBSET Urls]

InitTool ==
    /\ toolIn \in {Some(a) : a \in ToolInputs}
    /\ toolOut = NoneVal
    /\ ovIn = NoneVal /\ ovOut = NoneVal
    /\ server = "main" /\ apiKeyEnv = NoneVal /\ clock = 0
    /\ tempBg \in {NoneVal, Some(ImgOf("u2"))}     \* temp_bg.jpg of an earlier run
    /\ finalFiles = [t \in FinalNames |-> NoneVal]
    /\ downloads = [n \in DlNames |-> NoneVal]
    /\ finalDir = ~IsNone(tempBg)                  \* made by that earlier run
    /\ inv = [i \in Invs |-> Idle]

\* handle_mcp_request on tools/call create_quote_image with the inputs of toolIn
ToolCall ==
    /\ ~IsNone(toolIn)
    /\ IsNone(toolOut)
    /\ LET a == Val(toolIn)
           req == Req(TRUE, "tools/call", TRUE, "create_quote_image", a.quote, a.author)
           h == handle_mcp_request(server, 1, req, a.fetch, a.ok, "ok", clock,
                                   tempBg, finalFiles, downloads, finalDir)
       IN  /\ toolOut' = Some([resp |-> h.resp, trace |-> Val(h.trace)])
           /\ tempBg' = h.file
           /\ finalFiles' = h.finals
           /\ downloads' = h.dl
           /\ finalDir' = h.fdir
    /\ UNCHANGED <<ovVars, toolIn, server, apiKeyEnv, clock, inv>>

NextTool == ToolCall

SpecTool == InitTool /\ [][NextTool]_vars

-----------------------------------------------------------------------------
(* Properties of the compositor, checked under SpecOverlay *)

OvIn == Val(ovIn)

OvOut == Val(ovOut)

\* the call has returned an image
Composed == ~IsNone(ovOut) /\ ~OvOut.raised

WordsOf(line) == Split(line)

\* C1: the words of the wrapped lines, line after line, are exactly text.split():
\* none added, dropped, duplicated or reordered
WrapPreservesWords ==
    Composed =>
        Concat([i \in 1..Len(OvOut.lines) |-> WordsOf(OvOut.lines[i])])
            = Split(Val(OvIn.text))

\* a quote of at least three words wrapped onto at least two non-empty lines
WrapPreservesWordsWitness ==
    /\ Composed
    /\ Len(Split(Val(OvIn.text))) >= 3
    /\ Len(OvOut.lines) >= 2
    /\ \A i \in 1..Len(OvOut.lines) : OvOut.lines[i] # <<>>

\* C2: every wrapped line is at most max_width wide, except a line of exactly one
\* word that is itself wider than max_width; and every such word has a line of its own
WidthBound ==
    Composed =>
        LET o == OvOut
            words == Split(Val(OvIn.text))
        IN  /\ o.max_width = (4 * OvIn.img.width) \div 5
            /\ \A i \in 1..Len(o.lines) :
                 \/ TextW(o.lines[i], o.font) <= o.max_width
                 \/ /\ Len(WordsOf(o.lines[i])) = 1
                    /\ TextW(WordsOf(o.lines[i])[1], o.font) > o.max_width
            /\ \A k \in 1..Len(words) :
                 TextW(words[k], o.font) > o.max_width
                    => \E i \in 1..Len(o.lines) : o.lines[i] = words[k]

\* a wrap with an over-wide single-word line and a non-empty line that fits
WidthBoundWitness ==
    /\ Composed
    /\ \E i \in 1..Len(OvOut.lines) :
         /\ Len(WordsOf(OvOut.lines[i])) = 1
         /\ TextW(OvOut.lines[i], OvOut.font) > OvOut.max_width
    /\ \E i \in 1..Len(OvOut.lines) :
         /\ OvOut.lines[i] # <<>>
         /\ TextW(OvOut.lines[i], OvOut.font) <= OvOut.max_width

\* C3: a quote of one word wider than max_width is wrapped to exactly [thatWord]
SingleWideWordAlone ==
    Composed =>
        LET words == Split(Val(OvIn.text))
        IN  (Len(words) = 1 /\ TextW(words[1], OvOut.font) > OvOut.max_width)
                => OvOut.lines = <<words[1]>>

\* C7: total_height is the sum of the line heights plus (lineCount - 1) spacings,
\* plus, exactly when an author is given, author_h + 2 spacings for the line
\* "- <author>"; without an author nothing is added and no author line is drawn
HeightFormula ==
    Composed =>
        LET o  == OvOut
            a  == OvIn.author
            ls == (2 * (OvIn.img.height \div 15)) \div 5
            quote_h == SumSeq([i \in 1..Len(o.lines) |-> TextH(o.lines[i], o.font)])
                           + (Len(o.lines) - 1) * ls
        IN  IF ~IsNone(a) /\ Val(a) # <<>>
            THEN /\ o.author_text = <<"-", " ">> \o Val(a)
                 /\ o.author_h = TextH(o.author_text, o.bold_font)
                 /\ o.total_height = quote_h + o.author_h + 2 * ls
                 /\ ~IsNone(o.author_draw)
                 /\ Val(o.author_draw).text = o.author_text
            ELSE /\ o.total_height = quote_h
                 /\ IsNone(o.author_draw)

\* an author line under a quote of two lines, with a non-zero line spacing
HeightFormulaWitness ==
    /\ Composed
    /\ ~IsNone(OvIn.author) /\ Val(OvIn.author) # <<>>
    /\ OvOut.line_spacing > 0
    /\ Len(OvOut.lines) >= 2
    /\ OvOut.author_h > 0

\* C8: a word after the first of its line stays on the line iff the line joined
\* with it by one space is at most max_width wide (equality accepted): every
\* prefix of a line fits, and the first word of the next line would not have fitted
GreedyFit ==
    Composed =>
        LET o == OvOut
        IN  \A i \in 1..Len(o.lines) :
              LET ws == WordsOf(o.lines[i])
              IN  /\ \A k \in 2..Len(ws) :
                       TextW(Join(SubSeq(ws, 1, k)), o.font) <= o.max_width
                  /\ (i < Len(o.lines) /\ ws # <<>>)
                       => TextW(Join(Append(ws, WordsOf(o.lines[i + 1])[1])), o.font)
                              > o.max_width

\* a line of two words exactly max_width wide, followed by another line
GreedyFitWitness ==
    /\ Composed
    /\ Len(OvOut.lines) >= 2
    /\ \E i \in 1..(Len(OvOut.lines) - 1) :
         /\ Len(WordsOf(OvOut.lines[i])) >= 2
         /\ TextW(OvOut.lines[i], OvOut.font) = OvOut.max_width

\* C10: the candidates are tried in list order up to and including the first that
\* loads, which becomes font and bold_font; when none loads all were tried and both
\* fonts are the built-in default; a call with a quote string never raises
FontFallback ==
    ~IsNone(ovOut) =>
        LET o == OvOut
            size == OvIn.img.height \div 15
            loadable == {p \in 1..NumFonts : Loads(OvIn.fontFiles, p, size)}
        IN  /\ ~IsNone(OvIn.text) => ~o.raised
            /\ o.bold_font = o.font
            /\ IF loadable = {}
               THEN /\ o.font = load_default
                    /\ o.tried = [p \in 1..NumFonts |-> p]
               ELSE LET first == CHOOSE p \in loadable : \A q \in loadable : p <= q
                    IN  /\ o.font = [face |-> first, size |-> size]
                        /\ o.tried = [p \in 1..first |-> p]

\* the first candidate fails, the second and third load: the second is used
FontFallbackWitness ==
    /\ Composed
    /\ ~Loads(OvIn.fontFiles, 1, OvOut.font_size)
    /\ Loads(OvIn.fontFiles, 2, OvOut.font_size)
    /\ Loads(OvIn.fontFiles, 3, OvOut.font_size)
    /\ OvOut.font.face = 2
    /\ OvOut.tried = <<1, 2>>

-----------------------------------------------------------------------------
(* Properties of the endpoint, checked under Spec *)

\* request i was a create_quote_image call and answered status "success"
Succeeded(i) ==
    /\ inv[i].pc = "done"
    /\ IsQuoteCall(server, inv[i].req)
    /\ inv[i].resp.tool_result.status = "success"

\* C4: a create_quote_image call whose quote is empty or only whitespace fails and
\* produces no image
EmptyQuoteFails ==
    \A i \in Invs :
        (/\ inv[i].pc = "done"
         /\ IsQuoteCall(server, inv[i].req)
         /\ ~IsNone(inv[i].req.quote)
         /\ Split(Val(inv[i].req.quote)) = <<>>)
            => /\ inv[i].resp.tool_result.status # "success"
               /\ IsNone(inv[i].resp.tool_result.final_path)

\* the image request i asked for: its quote over the background of its own URL
OwnImage(i) ==
    Rendered(apply_text_overlay(ImgOf(Val(inv[i].resp.tool_result.url)),
                                inv[i].req.quote, inv[i].req.author, ServerFonts))

Concurrent(i, j) == j \in inv[i].overlap \/ i \in inv[j].overlap

\* C5: two concurrent create_quote_image calls with distinct, non-empty quotes do
\* not interfere: the file each one reports holds its own composition
NoInterference ==
    \A i, j \in Invs :
        (/\ i # j /\ Succeeded(i) /\ Succeeded(j) /\ Concurrent(i, j)
         /\ Split(Val(inv[i].req.quote)) # <<>>
         /\ Split(Val(inv[j].req.quote)) # <<>>
         /\ Split(Val(inv[i].req.quote)) # Split(Val(inv[j].req.quote)))
            => finalFiles[Val(inv[i].resp.tool_result.final_path)] = Some(OwnImage(i))

KeySet == ~IsNone(apiKeyEnv) /\ Val(apiKeyEnv) # ""

\* C6 as claimed: in every configuration a request is dispatched only if its
\* X-API-Key header equals MCP_API_KEY, and is otherwise rejected with 403
AuthAlwaysEnforced ==
    \A i \in Invs :
        /\ inv[i].pc \in {"received", "done"}
              => (~IsNone(inv[i].header) /\ inv[i].header = apiKeyEnv)
        /\ inv[i].pc = "rejected" => inv[i].resp = Forbidden

\* C6 amended: when MCP_API_KEY is set and non-empty a request is dispatched only if
\* its header equals it, and is otherwise answered 403 with nothing executed; when
\* it is unset or empty (main.py) no request is rejected
AuthEnforcedWhenKeySet ==
    \A i \in Invs :
        /\ (KeySet /\ inv[i].pc \in {"received", "done"})
              => (~IsNone(inv[i].header) /\ inv[i].header = apiKeyEnv)
        /\ inv[i].pc = "rejected"
              => /\ KeySet
                 /\ inv[i].header # apiKeyEnv
                 /\ inv[i].resp = Forbidden
                 /\ inv[i].resp.tool_result = NoToolResult

\* with a key set, one request is rejected and another, carrying the key, has run
AuthWitness ==
    /\ KeySet
    /\ \E i, j \in Invs :
         /\ inv[i].pc = "rejected" /\ inv[i].header # apiKeyEnv
         /\ inv[j].pc = "done" /\ inv[j].header = apiKeyEnv /\ inv[j].resp.http = 200

-----------------------------------------------------------------------------
(* Layout properties of the compositor, checked under SpecOverlay *)

\* the bottom edge of a drawn text: its y plus its measured height
Bottom(d) == d.y + TextH(d.text, d.font)

\* the last element drawn: the author line if there is one, else the last quote line
LastDrawn(o) ==
    IF IsNone(o.author_draw) THEN o.draws[Len(o.draws)] ELSE Val(o.author_draw)

\* C11: the first line is drawn at y = (height - total_height) // 2, every line
\* and the author line at x = (width - its width) // 2, and the bottom of the last
\* drawn element is start + total_height, so the top and bottom margins differ by
\* at most one pixel
CursorMatchesHeight ==
    Composed =>
        LET o     == OvOut
            H     == OvIn.img.height
            W     == OvIn.img.width
            start == o.draws[1].y
        IN  /\ Len(o.draws) = Len(o.lines)
            /\ 2 * start <= H - o.total_height
            /\ H - o.total_height <= 2 * start + 1
            /\ \A i \in 1..Len(o.draws) :
                 /\ o.draws[i].text = o.lines[i]
                 /\ 2 * o.draws[i].x <= W - TextW(o.lines[i], o.font)
                 /\ W - TextW(o.lines[i], o.font) <= 2 * o.draws[i].x + 1
            /\ ~IsNone(o.author_draw) =>
                 LET a == Val(o.author_draw)
                 IN  /\ 2 * a.x <= W - TextW(a.text, a.font)
                     /\ W - TextW(a.text, a.font) <= 2 * a.x + 1
            /\ Bottom(LastDrawn(o)) = start + o.total_height
            /\ (H - Bottom(LastDrawn(o))) - start \in {0, 1}

\* two quote lines and an author line, a non-zero spacing, margins one pixel apart
CursorMatchesHeightWitness ==
    /\ Composed
    /\ Len(OvOut.draws) >= 2
    /\ ~IsNone(OvOut.author_draw)
    /\ OvOut.line_spacing > 0
    /\ (OvIn.img.height - Bottom(LastDrawn(OvOut))) - OvOut.draws[1].y = 1

\* C13: when the text block is taller than the image the start y is the floor of
\* (height - total_height) / 2, a negative number, nothing is clamped and the call
\* still draws every line and saves its image
TallBlockNotClamped ==
    (~IsNone(ovOut) /\ ~IsNone(OvIn.text)) =>
        LET o == OvOut
            H == OvIn.img.height
        IN  /\ ~o.raised /\ o.saved
            /\ o.total_height > H =>
                 /\ o.start_y < 0
                 /\ 2 * o.start_y <= H - o.total_height
                 /\ H - o.total_height < 2 * o.start_y + 2
                 /\ o.draws[1].y = o.start_y
                 /\ Len(o.draws) = Len(o.lines)
                 /\ o.font_size = H \div 15

\* a block taller than the image by an odd number of pixels
TallBlockWitness ==
    /\ Composed
    /\ OvOut.total_height > OvIn.img.height
    /\ (OvOut.total_height - OvIn.img.height) % 2 = 1
    /\ OvOut.start_y < 0

\* C14: for a quote with at least one word every wrapped line holds at least one
\* word, so there are no more lines than words
NoEmptyLine ==
    (Composed /\ Split(Val(OvIn.text)) # <<>>) =>
        /\ \A i \in 1..Len(OvOut.lines) : WordsOf(OvOut.lines[i]) # <<>>
        /\ Len(OvOut.lines) <= Len(Split(Val(OvIn.text)))

-----------------------------------------------------------------------------
(* The download retry loop, checked under SpecTool *)

ToolIn == Val(toolIn)

ToolOut == Val(toolOut)

\* the positions in the fetched list whose download and verification succeed
Succeeding(urls, ok) == {k \in 1..Len(urls) : urls[k] \in ok}

\* C12: the links are tried in list order up to the first whose download succeeds;
\* the overlay is applied once, to that image, and original_image_url is that
\* link; with no link or no successful download the overlay is never applied and
\* the status is "error"
RetryStopsAtFirstSuccess ==
    (~IsNone(toolOut) /\ ~IsNone(ToolIn.fetch)) =>
        LET urls == Val(ToolIn.fetch)
            succ == Succeeding(urls, ToolIn.ok)
            t    == ToolOut.trace
            res  == ToolOut.resp.tool_result
        IN  IF succ = {}
            THEN /\ t.attempted = urls
                 /\ t.overlays = <<>>
                 /\ res.status = "error"
                 /\ IsNone(res.final_path) /\ IsNone(res.url)
                 /\ \A p \in DOMAIN finalFiles : IsNone(finalFiles[p])
            ELSE LET first == CHOOSE k \in succ : \A j \in succ : k <= j
                 IN  /\ t.attempted = SubSeq(urls, 1, first)
                     /\ t.overlays = <<urls[first]>>
                     /\ tempBg = Some(ImgOf(urls[first]))
                     /\ ~IsNone(ToolIn.quote) =>
                          /\ res.status = "success"
                          /\ res.url = Some(urls[first])
                          /\ finalFiles[Val(res.final_path)]
                               = Some(Rendered(apply_text_overlay(ImgOf(urls[first]),
                                        ToolIn.quote, ToolIn.author, ServerFonts)))

\* the first link fails, the second succeeds and is the one reported
RetryWitness ==
    /\ ~IsNone(toolOut) /\ ~IsNone(ToolIn.fetch)
    /\ Len(Val(ToolIn.fetch)) >= 2
    /\ Val(ToolIn.fetch)[1] \notin ToolIn.ok
    /\ Val(ToolIn.fetch)[2] \in ToolIn.ok
    /\ Val(ToolIn.fetch)[1] # Val(ToolIn.fetch)[2]
    /\ ToolOut.resp.tool_result.status = "success"
    /\ ToolOut.resp.tool_result.url = Some(Val(ToolIn.fetch)[2])
    /\ ToolOut.trace.attempted = SubSeq(Val(ToolIn.fetch), 1, 2)

-----------------------------------------------------------------------------
(* Responses and output files of the endpoint, checked under Spec *)

\* C15: every dispatched request is answered with one SSE message whose payload
\* is a JSON-RPC envelope with exactly one of "result" or "error", carrying the
\* id of the request when its body could be parsed
EveryResponseIsEnvelope ==
    \A i \in Invs :
        inv[i].pc = "done"
            => /\ inv[i].resp.http = 200
               /\ inv[i].resp.kind \in {"result", "error"}
               /\ inv[i].req.json_ok => inv[i].resp.id = Some(i)

\* C16: no two successful create_quote_image calls return the same
\* final_image_path, so no call overwrites the output of an earlier one
DistinctFinalPaths ==
    \A i, j \in Invs :
        (i # j /\ Succeeded(i) /\ Succeeded(j))
            => inv[i].resp.tool_result.final_path # inv[j].resp.tool_result.final_path

====
